---- MODULE Spec2Model ----
(***************************************************************************)
(* refactor_imports.py: a one-shot rewriter of module paths.  The table    *)
(* MAPPINGS is applied, rule after rule, to the text of every .rs file     *)
(* under src_dir (the root's own lib.rs excepted); a file is written back  *)
(* and announced only when its text changed.                               *)
(*                                                                         *)
(* Texts are TLA+ strings; a character is a string of length 1.            *)
(***************************************************************************)
EXTENDS Integers, Sequences, FiniteSets, TLC

VARIABLES
  original,   \* process_file: the text as read
  content,    \* process_file: the text being rewritten
  k,          \* number of rules of MAPPINGS applied so far to content
  order,      \* the rule order used for permuted (<<>>: none yet)
  permuted,   \* the text rewritten with the rules taken in that order
  fs0,        \* the files under src_dir when main starts: path -> text on disk
  fs,         \* the files under src_dir now
  stack,      \* os.walk: directories still to be listed
  root,       \* main: the directory being iterated ("" before the first)
  files,      \* main: the names of `files` not yet iterated
  pc,         \* main: "walk", "done", or "failed" (an exception left main)
  failedAt,   \* the path whose read or write raised ("" if none)
  reads,      \* path -> number of times the file was opened for reading
  writes,     \* path -> number of times the file was opened for writing
  out         \* path -> number of lines "Updated <path>" printed

textVars == <<original, content, k, order, permuted>>
walkVars == <<fs0, fs, stack, root, files, pc, failedAt, reads, writes, out>>
vars == <<original, content, k, order, permuted,
          fs0, fs, stack, root, files, pc, failedAt, reads, writes, out>>

(***************************************************************************)
(* The rule table.  Each pattern is a literal followed by \b.              *)
(***************************************************************************)
MAPPINGS ==
  <<
    [pattern |-> "crate::app\\b", replacement |-> "crate::core::app"],
    [pattern |-> "crate::window\\b", replacement |-> "crate::core::window"],
    [pattern |-> "crate::preferences\\b", replacement |-> "crate::core::preferences"],
    [pattern |-> "crate::commands\\b", replacement |-> "crate::core::commands"],
    [pattern |-> "crate::input\\b", replacement |-> "crate::core::input"],
    [pattern |-> "crate::settings\\b", replacement |-> "crate::core::settings"],
    [pattern |-> "crate::viewport\\b", replacement |-> "crate::core::viewport"],
    [pattern |-> "crate::engine\\b", replacement |-> "crate::services::engine_bridge"],
    [pattern |-> "crate::backend_ai\\b", replacement |-> "crate::services::ai_agent"],
    [pattern |-> "crate::asset_source\\b", replacement |-> "crate::services::asset_server"],
    [pattern |-> "crate::theme\\b", replacement |-> "crate::ui::theme"],
    [pattern |-> "crate::activity_bar\\b", replacement |-> "crate::ui::layouts::activity_bar"],
    [pattern |-> "crate::resizable_panel\\b", replacement |-> "crate::ui::layouts::resizable_panel"],
    [pattern |-> "crate::director\\b", replacement |-> "crate::features::director"],
    [pattern |-> "crate::logic_graph\\b", replacement |-> "crate::features::logic_graph"],
    [pattern |-> "crate::assetvault\\b", replacement |-> "crate::features::asset_vault"],
    [pattern |-> "crate::extension\\b", replacement |-> "crate::features::extension"],
    [pattern |-> "crate::account\\b", replacement |-> "crate::features::account"],
    [pattern |-> "crate::scenebuilder\\b", replacement |-> "crate::features::scene_builder"],
    [pattern |-> "crate::global_search\\b", replacement |-> "crate::features::global_search"]
  >>

NumRules == Len(MAPPINGS)

\* A table whose first rule nests the new path under the old one.
ReplacementNestedUnderOld(i) ==
  IF i = 1 THEN "crate::app::core" ELSE MAPPINGS[i].replacement

\* A table that moves theme under app, a module the table itself moves.
ReplacementUnderMovedModule(i) ==
  IF i = 11 THEN "crate::app::theme" ELSE MAPPINGS[i].replacement

\* A table whose patterns lack the trailing \b.
PatternWithoutBoundary(i) ==
  SubSeq(MAPPINGS[i].pattern, 1, Len(MAPPINGS[i].pattern) - 2)

\* Rule i of the table, in declaration order (dict insertion order).
Pattern(i) == MAPPINGS[i].pattern
Replacement(i) == MAPPINGS[i].replacement

(***************************************************************************)
(* re: the fragment of the regular-expression language the table uses.     *)
(***************************************************************************)
\* \w for the characters of the model's texts: letters, digits, underscore.
WordChars ==
  {"a","b","c","d","e","f","g","h","i","j","k","l","m",
   "n","o","p","q","r","s","t","u","v","w","x","y","z",
   "A","B","C","D","E","F","G","H","I","J","K","L","M",
   "N","O","P","Q","R","S","T","U","V","W","X","Y","Z",
   "0","1","2","3","4","5","6","7","8","9","_"}

\* The character of s at position i, "" outside s.
CharAt(s, i) == IF 1 <= i /\ i <= Len(s) THEN SubSeq(s, i, i) ELSE ""

IsWord(c) == c \in WordChars

\* \b just before position i of s: exactly one of the two neighbours is \w.
WordBoundary(s, i) == IsWord(CharAt(s, i - 1)) # IsWord(CharAt(s, i))

\* Whether pattern p ends with the two characters \b.
HasBoundary(p) == Len(p) >= 2 /\ SubSeq(p, Len(p) - 1, Len(p)) = "\\b"

\* The literal part of pattern p.
Literal(p) == IF HasBoundary(p) THEN SubSeq(p, 1, Len(p) - 2) ELSE p

\* The pattern (literal lit, then \b if wb) matches s at position i.
MatchAt(lit, wb, s, i) ==
  /\ i >= 1
  /\ i + Len(lit) - 1 <= Len(s)
  /\ SubSeq(s, i, i + Len(lit) - 1) = lit
  /\ wb => WordBoundary(s, i + Len(lit))

\* The positions at or after i where the pattern matches s.
MatchesFrom(lit, wb, s, i) ==
  {j \in i..(Len(s) - Len(lit) + 1) : MatchAt(lit, wb, s, j)}

\* The start of the leftmost match at or after position i, 0 if there is none.
Search(lit, wb, s, i) ==
  LET M == MatchesFrom(lit, wb, s, i)
  IN  IF M = {} THEN 0 ELSE CHOOSE j \in M : \A m \in M : j <= m

\* s from position i on, every leftmost non-overlapping match replaced by r.
RECURSIVE SubFrom(_, _, _, _, _)
SubFrom(lit, wb, r, s, i) ==
  LET j == Search(lit, wb, s, i)
  IN  IF j = 0 THEN SubSeq(s, i, Len(s))
      ELSE SubSeq(s, i, j - 1) \o r \o SubFrom(lit, wb, r, s, j + Len(lit))

\* re's cache of compiled patterns: the literal of each pattern of the table
\* and whether \b follows it.
Compiled ==
  [p \in {Pattern(i) : i \in 1..NumRules} |->
     [lit |-> Literal(p), wb |-> HasBoundary(p)]]

\* re.sub with count=1: only the first match is replaced.
re_sub_first(p, r, s) ==
  LET j == Search(Compiled[p].lit, Compiled[p].wb, s, 1)
  IN  IF j = 0 THEN s
      ELSE SubSeq(s, 1, j - 1) \o r \o SubSeq(s, j + Len(Compiled[p].lit), Len(s))

\* re.sub(pattern, replacement, s)
re_sub(p, r, s) ==
  IF s = "" THEN "" ELSE SubFrom(Compiled[p].lit, Compiled[p].wb, r, s, 1)

\* The loop of process_file after n iterations, started on s.
RECURSIVE LeftFold(_, _)
LeftFold(n, s) ==
  IF n = 0 THEN s
  ELSE re_sub(Pattern(n), Replacement(n), LeftFold(n - 1, s))

\* The whole loop of process_file.
Transform(s) == LeftFold(NumRules, s)

(***************************************************************************)
(* The texts the transform is run on.                                      *)
(***************************************************************************)
\* Longest sequence of fragments a text is built from.
MaxFrags == 3

\* The path each rule looks for.
Paths == {SubSeq(MAPPINGS[i].pattern, 1, Len(MAPPINGS[i].pattern) - 2) : i \in 1..NumRules}

Prefixes == {"", "use ", "my"}
Suffixes == {"", "_state", "9", "::Foo;"}

\* One reference to a mapped path, for every rule of the table.
ItemTexts == {a \o p \o b : a \in Prefixes, p \in Paths, b \in Suffixes}

Fragments ==
  {"crate::app", "crate::theme", "crate::core::app",
   "use ", "my", "crate::", "_state", "endix", "::Foo;", ";\n"}

RECURSIVE Concat(_)
Concat(fr) == IF fr = <<>> THEN "" ELSE Head(fr) \o Concat(Tail(fr))

FragTexts ==
  {Concat(fr) : fr \in UNION {[1..n -> Fragments] : n \in 0..MaxFrags}}

Texts == ItemTexts \cup FragTexts

\* The variables of main while only the transform runs.
WalkIdle ==
  /\ fs0 = <<>> /\ fs = <<>> /\ stack = <<>> /\ root = "" /\ files = {}
  /\ pc = "idle" /\ failedAt = "" /\ reads = <<>> /\ writes = <<>> /\ out = <<>>

(***************************************************************************)
(* process_file's loop, one rule per step.                                 *)
(***************************************************************************)
InitTransform ==
  /\ original \in Texts
  /\ content = original
  /\ k = 0
  /\ order = <<>>
  /\ permuted = ""
  /\ WalkIdle

\* content = re.sub(pattern, replacement, content), for the next rule.
ApplyRule ==
  /\ k < NumRules
  /\ content' = re_sub(Pattern(k + 1), Replacement(k + 1), content)
  /\ k' = k + 1
  /\ UNCHANGED <<original, order, permuted>>
  /\ UNCHANGED walkVars

NextTransform == ApplyRule

SpecTransform == InitTransform /\ [][NextTransform]_vars

(***************************************************************************)
(* What the properties of the transform are stated with.                   *)
(***************************************************************************)
\* The path rule i looks for: its pattern less the trailing \b.
PathOf ==
  [i \in 1..NumRules |-> SubSeq(MAPPINGS[i].pattern, 1, Len(MAPPINGS[i].pattern) - 2)]

\* The positions of s where rule i's path stands, whatever follows it.
Occurrences(i, s) == MatchesFrom(PathOf[i], FALSE, s, 1)

PathLen(i) == Len(PathOf[i])

\* The occurrences immediately followed by an identifier character.
Blocked(i, s) == {j \in Occurrences(i, s) : IsWord(CharAt(s, j + PathLen(i)))}

\* The occurrences followed by a non-identifier character or by the end.
Free(i, s) == {j \in Occurrences(i, s) : ~IsWord(CharAt(s, j + PathLen(i)))}

\* Some mapped path stands in s with no identifier character after it.
HoldsFreePath(s) == \E i \in 1..NumRules : Free(i, s) # {}

\* The positions where rule i matches s.
Matches(i, s) ==
  MatchesFrom(Compiled[Pattern(i)].lit, Compiled[Pattern(i)].wb, s, 1)

NoRuleMatches(s) == \A i \in 1..NumRules : Matches(i, s) = {}

\* C1: the transform is idempotent: once the whole table has been applied,
\* applying it again changes nothing, and no rule matches the text any more.
C1_Idempotent ==
  k = NumRules => Transform(content) = content /\ NoRuleMatches(content)

\* A text that the table rewrote.
C1_Witness ==
  /\ k = NumRules
  /\ original = "use crate::theme::Foo;"
  /\ content = "use crate::ui::theme::Foo;"

\* C3 (texts): a text whose only occurrences of mapped paths are followed by
\* an identifier character comes out of the transform unchanged.
C3_OnlyBlockedUnchanged ==
  (k = NumRules /\ \A i \in 1..NumRules : Free(i, original) = {})
    => content = original

\* C3 (occurrences): when rule k' is applied, every occurrence of its path
\* that is followed by an identifier character is still there, with that
\* character, moved right by the growth of the occurrences rewritten before it.
C3_BlockedSurvives ==
  k' = k + 1 =>
    LET d == Len(MAPPINGS[k'].replacement) - PathLen(k')
    IN  \A j \in Blocked(k', content) :
          LET at == j + d * Cardinality({m \in Free(k', content) : m < j})
          IN  SubSeq(content', at, at + PathLen(k')) =
                SubSeq(content, j, j + PathLen(k'))

\* C3: an occurrence of a mapped path immediately followed by an identifier
\* character is not rewritten, for every rule of the table.
C3_BoundaryRespected == []C3_OnlyBlockedUnchanged /\ [][C3_BlockedSurvives]_vars

\* A finished transform of a text that holds blocked occurrences only.
C3_Witness ==
  /\ k = NumRules
  /\ \E i \in 1..NumRules : Blocked(i, original) # {}
  /\ \A i \in 1..NumRules : Free(i, original) = {}
  /\ content = original

\* C4 (result): the final text is the left fold of the table over the
\* original, and the scenario line comes out as documented.
C4_FoldResult ==
  k = NumRules =>
    /\ content = LeftFold(NumRules, original)
    /\ original = "use crate::app::Foo;" => content = "use crate::core::app::Foo;"

\* t is s with the stretches of length n that start at the positions M each
\* replaced by r: the stretches do not overlap, each has become r, and every
\* stretch of text between two of them (before the first, after the last) is
\* kept.
IsSubstitution(M, n, r, s, t) ==
  LET d == Len(r) - n
      Before(j) == Cardinality({m \in M : m < j})
      From(j) ==
        LET E == {m + n : m \in {x \in M : x < j}}
        IN  IF E = {} THEN 1 ELSE CHOOSE e \in E : \A f \in E : f <= e
  IN  /\ \A m1, m2 \in M : m1 < m2 => m1 + n <= m2
      /\ Len(t) = Len(s) + d * Cardinality(M)
      /\ \A m \in M :
           SubSeq(t, m + d * Before(m), m + d * Before(m) + Len(r) - 1) = r
      /\ \A j \in M \cup {Len(s) + 1} :
           SubSeq(t, From(j) + d * Before(j), j - 1 + d * Before(j)) =
             SubSeq(s, From(j), j - 1)

\* C4 (one rule): rule k' is applied to the text rules 1..k left, as a
\* substitution of every match of its pattern.
C4_GlobalSubstitution ==
  k' = k + 1 =>
    IsSubstitution(Matches(k', content), Len(Literal(Pattern(k'))),
                   Replacement(k'), content, content')

\* C4: the transformed content is the left fold of the rule table, in
\* declaration order, each rule a global substitution of every match.
C4_LeftFoldInOrder == []C4_FoldResult /\ [][C4_GlobalSubstitution]_vars

\* A text that one rule matches twice, rewritten at both places.
C4_Witness ==
  /\ k = NumRules
  /\ original = "crate::app;\ncrate::app"
  /\ content = "crate::core::app;\ncrate::core::app"

\* C7: every match of the rule about to be applied is a complete token: no
\* identifier character stands right before it or right after it.
C7_MatchIsWholeToken ==
  k < NumRules =>
    \A j \in Matches(k + 1, content) :
      /\ ~IsWord(CharAt(content, j - 1))
      /\ ~IsWord(CharAt(content, j + Len(Literal(Pattern(k + 1)))))

(***************************************************************************)
(* The same loop over a reordered table.                                   *)
(***************************************************************************)
\* Rule orders i |-> (i - 1) * stride + offset (mod NumRules): the declared
\* order (1, 0), its reverse (19, 19), an interleaving (3, 0), and a rotation
\* of each.
Strides == {1, 3, 19}
Offsets == {0, 19}

Orders ==
  {o \in {[i \in 1..NumRules |-> (((i - 1) * st + off) % NumRules) + 1] :
            st \in Strides, off \in Offsets} :
     {o[i] : i \in 1..NumRules} = 1..NumRules}

\* The loop of process_file over the first n rules of the table reordered by o.
RECURSIVE FoldIn(_, _, _)
FoldIn(o, n, s) ==
  IF n = 0 THEN s
  ELSE re_sub(Pattern(o[n]), Replacement(o[n]), FoldIn(o, n - 1, s))

\* process_file's loop as written.
RunDeclared ==
  /\ k = 0
  /\ content' = Transform(original)
  /\ k' = NumRules
  /\ UNCHANGED <<original, order, permuted>>
  /\ UNCHANGED walkVars

\* The loop on the same text with the table in order o.
RunPermuted(o) ==
  /\ k = NumRules
  /\ order = <<>>
  /\ order' = o
  /\ permuted' = FoldIn(o, NumRules, original)
  /\ UNCHANGED <<original, content, k>>
  /\ UNCHANGED walkVars

NextOrder == RunDeclared \/ \E o \in Orders : RunPermuted(o)

SpecOrder == InitTransform /\ [][NextOrder]_vars

\* C10: whatever order the rules are taken in, the text comes out as it does
\* in declaration order.
C10_OrderIrrelevant == order # <<>> => permuted = content

\* Two rules rewrite the same text, taken in reverse order.
C10_Witness ==
  /\ order # <<>>
  /\ order[1] = NumRules /\ order[NumRules] = 1
  /\ original = "crate::app;\ncrate::theme"
  /\ permuted = "crate::core::app;\ncrate::ui::theme"

(***************************************************************************)
(* main: the walk over src_dir.                                            *)
(***************************************************************************)
src_dir == "c:\\dev\\Luminara-Engine\\crates\\luminara_editor\\src"

\* os.path.join(a, b) on the platform of src_dir, for a relative name b.
join(a, b) == a \o "\\" \o b

\* str.endswith
endswith(s, suffix) ==
  Len(s) >= Len(suffix) /\ SubSeq(s, Len(s) - Len(suffix) + 1, Len(s)) = suffix

\* The directories of the tree: src_dir and its two subdirectories.
DirUi == join(src_dir, "ui")
DirCore == join(src_dir, "core")
Dirs == {src_dir, DirUi, DirCore}

SubDirNames(d) == IF d = src_dir THEN {"ui", "core"} ELSE {}

\* The file names a directory may hold, and the texts a file may hold on disk.
Names == {"lib.rs", "mod.rs", "mod.rs.bak"}
FileTexts == {"", "crate::appendix;\n", "crate::app;\r\n"}

AllPaths == {join(d, n) : d \in Dirs, n \in Names}

\* Most files a tree holds.
MaxFiles == 3

Trees ==
  UNION {[S -> FileTexts] : S \in {T \in SUBSET AllPaths : Cardinality(T) <= MaxFiles}}

\* The orders in which scandir may list the names S.
Listings(S) ==
  {l \in [1..Cardinality(S) -> S] : {l[i] : i \in 1..Cardinality(S)} = S}

\* str.replace, as the text layer's newline translation does it.
Replace(old, new, s) == IF s = "" THEN "" ELSE SubFrom(old, FALSE, new, s, 1)

\* f.read() of a file opened in text mode: universal newlines.
read_text(data) == Replace("\r", "\n", Replace("\r\n", "\n", data))

\* f.write(text) in text mode: "\n" becomes os.linesep, here "\r\n".
write_text(text) == Replace("\n", "\r\n", text)

\* What a failed write may leave on disk: the file as it was (open raised),
\* an empty file (truncated, nothing flushed), or the new data cut short.
Partial(old, data) == {old, "", SubSeq(data, 1, Len(data) - 1)}

\* if '.rs' in file
IncludedIfContains(file) ==
  \E i \in 1..Len(file) : i + 2 <= Len(file) /\ SubSeq(file, i, i + 2) = ".rs"

\* if file.endswith('.rs')
Included(file) == endswith(file, ".rs")

\* if file == 'lib.rs', wherever it is
SkippedAnywhere(file, dir) == file = "lib.rs"

\* if file == 'lib.rs' and root == src_dir
Skipped(file, dir) == file = "lib.rs" /\ dir = src_dir

Bump(f, p) == [f EXCEPT ![p] = @ + 1]

InitWalk ==
  /\ fs0 \in Trees
  /\ fs = fs0
  /\ stack = <<src_dir>>
  /\ root = ""
  /\ files = {}
  /\ pc = "walk"
  /\ failedAt = ""
  /\ reads = [p \in DOMAIN fs0 |-> 0]
  /\ writes = [p \in DOMAIN fs0 |-> 0]
  /\ out = [p \in DOMAIN fs0 |-> 0]
  /\ original = "" /\ content = "" /\ k = 0 /\ order = <<>> /\ permuted = ""

\* The exception of a failed read caught and dropped: the walk goes on.
ReadFailsSwallowed(filepath) ==
  /\ reads' = Bump(reads, filepath)
  /\ failedAt' = filepath
  /\ UNCHANGED <<fs, pc, writes, out>>

\* open(filepath, 'r') or f.read() raises: the exception leaves main.
ReadFails(filepath) ==
  /\ reads' = Bump(reads, filepath)
  /\ pc' = "failed"
  /\ failedAt' = filepath
  /\ UNCHANGED <<fs, writes, out>>

\* process_file without `if content != original`: every file read is written.
ReadSucceedsAlwaysWrites(filepath) ==
  LET now == Transform(read_text(fs[filepath]))
  IN  /\ reads' = Bump(reads, filepath)
      /\ writes' = Bump(writes, filepath)
      /\ fs' = [fs EXCEPT ![filepath] = write_text(now)]
      /\ out' = Bump(out, filepath)
      /\ UNCHANGED <<pc, failedAt>>

\* if content != original: write the file and print; the write may raise.
WriteIfChanged(filepath, was, now) ==
  IF now = was
    THEN UNCHANGED <<fs, pc, failedAt, writes, out>>
    ELSE /\ writes' = Bump(writes, filepath)
         /\ \/ /\ fs' = [fs EXCEPT ![filepath] = write_text(now)]
               /\ out' = Bump(out, filepath)
               /\ UNCHANGED <<pc, failedAt>>
            \/ /\ fs' \in {[fs EXCEPT ![filepath] = left] :
                             left \in Partial(fs[filepath], write_text(now))}
               /\ pc' = "failed"
               /\ failedAt' = filepath
               /\ UNCHANGED out

\* The text is read and rewritten, then written back if it changed.
ReadSucceeds(filepath) ==
  /\ reads' = Bump(reads, filepath)
  /\ WriteIfChanged(filepath, read_text(fs[filepath]),
                    Transform(read_text(fs[filepath])))

process_file(filepath) == ReadFails(filepath) \/ ReadSucceeds(filepath)

\* os.walk yields the next directory; its subdirectories will follow it, in
\* the order scandir listed them.
ListDir ==
  /\ pc = "walk"
  /\ files = {}
  /\ stack # <<>>
  /\ root' = Head(stack)
  /\ files' = {n \in Names : join(Head(stack), n) \in DOMAIN fs}
  /\ \E l \in Listings(SubDirNames(Head(stack))) :
       stack' = [i \in 1..Len(l) |-> join(Head(stack), l[i])] \o Tail(stack)
  /\ UNCHANGED <<fs0, fs, pc, failedAt, reads, writes, out>>
  /\ UNCHANGED textVars

\* A name that does not end with .rs.
IgnoreFile(file) ==
  /\ pc = "walk"
  /\ file \in files
  /\ ~Included(file)
  /\ files' = files \ {file}
  /\ UNCHANGED <<fs0, fs, stack, root, pc, failedAt, reads, writes, out>>
  /\ UNCHANGED textVars

\* break instead of continue: the rest of the directory's files is dropped.
BreakAtRootLib(file) ==
  /\ pc = "walk"
  /\ file \in files
  /\ Included(file)
  /\ Skipped(file, root)
  /\ files' = {}
  /\ UNCHANGED <<fs0, fs, stack, root, pc, failedAt, reads, writes, out>>
  /\ UNCHANGED textVars

\* continue
SkipRootLib(file) ==
  /\ pc = "walk"
  /\ file \in files
  /\ Included(file)
  /\ Skipped(file, root)
  /\ files' = files \ {file}
  /\ UNCHANGED <<fs0, fs, stack, root, pc, failedAt, reads, writes, out>>
  /\ UNCHANGED textVars

\* process_file(os.path.join(root, file))
ProcessFile(file) ==
  /\ pc = "walk"
  /\ file \in files
  /\ Included(file)
  /\ ~Skipped(file, root)
  /\ files' = files \ {file}
  /\ process_file(join(root, file))
  /\ UNCHANGED <<fs0, stack, root>>
  /\ UNCHANGED textVars

\* os.walk is exhausted: main returns.
Finish ==
  /\ pc = "walk"
  /\ files = {}
  /\ stack = <<>>
  /\ pc' = "done"
  /\ root' = ""
  /\ UNCHANGED <<fs0, fs, stack, files, failedAt, reads, writes, out>>
  /\ UNCHANGED textVars

Next ==
  \/ ListDir
  \/ \E file \in Names : IgnoreFile(file) \/ SkipRootLib(file) \/ ProcessFile(file)
  \/ Finish

Spec == InitWalk /\ [][Next]_vars

(***************************************************************************)
(* What the properties of the walk are stated with.                        *)
(***************************************************************************)
RootLib == join(src_dir, "lib.rs")

\* The paths main is to hand to process_file.
ToProcess ==
  {p \in DOMAIN fs0 :
     \E d \in Dirs, n \in Names :
       p = join(d, n) /\ endswith(n, ".rs") /\ p # RootLib}

\* The text on disk holds a mapped path that no identifier character follows.
Mentions(data) == HoldsFreePath(read_text(data))

\* The transform changes the text read from data.
Changes(data) == Transform(read_text(data)) # read_text(data)

\* What a file holding data holds once process_file has returned.
After(data) ==
  IF Changes(data) THEN write_text(Transform(read_text(data))) ELSE data

\* A call of process_file(p) that read the text `was` and made `now` of it:
\* p is opened for writing exactly when now differs from was, and the line is
\* printed exactly when that write went through; p then holds the whole of
\* now; without a write p is as it was.
CallIsRight(p, was, now) ==
  /\ writes'[p] = writes[p] + 1 <=> now # was
  /\ writes'[p] = writes[p] + 1 \/ writes'[p] = writes[p]
  /\ out'[p] = out[p] + 1 <=> (writes'[p] = writes[p] + 1 /\ failedAt' # p)
  /\ out'[p] = out[p] + 1 \/ out'[p] = out[p]
  /\ out'[p] = out[p] + 1 => fs'[p] = write_text(now)
  /\ writes'[p] = writes[p] => fs'[p] = fs[p]

\* C2 (one call): process_file(p), its read done, writes exactly when the
\* text changed and announces exactly when it wrote; a file it opens for
\* writing holds a mapped path.
C2_OneCall ==
  \A p \in DOMAIN fs0 :
    (reads'[p] = reads[p] + 1 /\ ~(failedAt' = p /\ writes'[p] = writes[p])) =>
      /\ CallIsRight(p, read_text(fs[p]), Transform(read_text(fs[p])))
      /\ writes'[p] = writes[p] + 1 => Mentions(fs[p])

\* C2 (any time): a file is written and announced at most once, only after
\* it was read, and holds what it held at the start unless it was written.
C2_Counts ==
  \A p \in DOMAIN fs0 :
    /\ reads[p] <= 1 /\ writes[p] <= reads[p] /\ out[p] <= writes[p]
    /\ writes[p] = 0 => fs[p] = fs0[p]

\* C2: process_file writes exactly when the text changed and announces
\* exactly when it wrote; a file without a mapped pattern is never opened for
\* writing and never announced; a rewritten file holds the whole new text and
\* is announced once.
C2_WriteIffChanged == []C2_Counts /\ [][C2_OneCall]_vars

\* One file rewritten and announced, an empty file and a file without any
\* mapped path read and left alone.
C2_Witness ==
  \E p, q, e \in DOMAIN fs0 :
    /\ out[p] = 1 /\ fs[p] = "crate::core::app;\r\n"
    /\ reads[q] = 1 /\ writes[q] = 0 /\ fs0[q] = "crate::appendix;\n"
    /\ reads[e] = 1 /\ writes[e] = 0 /\ fs0[e] = ""

\* C5: the root's lib.rs is never read nor written; a lib.rs of a
\* subdirectory is processed like any other .rs file.
C5_RootLibOnly ==
  /\ RootLib \in DOMAIN fs0 =>
       /\ reads[RootLib] = 0 /\ writes[RootLib] = 0 /\ out[RootLib] = 0
       /\ fs[RootLib] = fs0[RootLib]
  /\ pc = "done" =>
       \A d \in Dirs \ {src_dir} :
         join(d, "lib.rs") \in DOMAIN fs0 =>
           /\ reads[join(d, "lib.rs")] = 1
           /\ fs[join(d, "lib.rs")] = After(fs0[join(d, "lib.rs")])

\* Two lib.rs with the same text: the root's is left, ui's is rewritten.
C5_Witness ==
  /\ pc = "done"
  /\ RootLib \in DOMAIN fs0 /\ join(DirUi, "lib.rs") \in DOMAIN fs0
  /\ fs0[RootLib] = "crate::app;\r\n" /\ fs[RootLib] = "crate::app;\r\n"
  /\ fs0[join(DirUi, "lib.rs")] = "crate::app;\r\n"
  /\ fs[join(DirUi, "lib.rs")] = "crate::core::app;\r\n"
  /\ out[join(DirUi, "lib.rs")] = 1

\* C6 (state): once a read or a write has raised, main is over; every other
\* file read before holds what process_file left in it, every file not read
\* holds what it held at the start; the failing file was tried once.
C6_StateAtFailure ==
  failedAt # "" =>
    /\ pc = "failed"
    /\ reads[failedAt] = 1
    /\ \A p \in DOMAIN fs0 \ {failedAt} :
         fs[p] = IF reads[p] = 1 THEN After(fs0[p]) ELSE fs0[p]

\* C6 (steps): after the failure no file is read, written or announced.
C6_NothingAfterFailure ==
  failedAt # "" => UNCHANGED <<fs, reads, writes, out>>

\* C6: a failed read or write aborts the run at that file.
C6_AbortsAtFailure == []C6_StateAtFailure /\ [][C6_NothingAfterFailure]_vars

\* A failure after one file was rewritten and before another, which the
\* transform would have changed, was reached.
C6_Witness ==
  /\ pc = "failed"
  /\ \E p, q \in ToProcess \ {failedAt} :
       /\ out[p] = 1 /\ fs[p] = "crate::core::app;\r\n"
       /\ reads[q] = 0 /\ fs0[q] = "crate::app;\r\n" /\ fs[q] = fs0[q]

\* C8: a run without failure hands to process_file exactly the .rs files
\* other than the root's lib.rs, each once; a file whose name does not end
\* with .rs is never read nor written and keeps its content.
C8_ExactlyTheRsFiles ==
  /\ \A d \in Dirs, n \in Names :
       (join(d, n) \in DOMAIN fs0 /\ ~endswith(n, ".rs")) =>
         /\ reads[join(d, n)] = 0 /\ writes[join(d, n)] = 0
         /\ fs[join(d, n)] = fs0[join(d, n)]
  /\ pc = "done" =>
       \A p \in DOMAIN fs0 : reads[p] = IF p \in ToProcess THEN 1 ELSE 0

\* A finished run over mod.rs and mod.rs.bak of one directory, same text.
C8_Witness ==
  /\ pc = "done"
  /\ join(DirCore, "mod.rs") \in DOMAIN fs0
  /\ join(DirCore, "mod.rs.bak") \in DOMAIN fs0
  /\ fs0[join(DirCore, "mod.rs.bak")] = "crate::app;\r\n"
  /\ fs[join(DirCore, "mod.rs.bak")] = "crate::app;\r\n"
  /\ fs[join(DirCore, "mod.rs")] = "crate::core::app;\r\n"

\* C9: the files at the end of a run without failure, and the set of files
\* announced, are a function of the files at the start: the order of the
\* visits does not show.
C9_OrderIndependent ==
  pc = "done" =>
    /\ fs = [p \in DOMAIN fs0 |-> IF p \in ToProcess THEN After(fs0[p]) ELSE fs0[p]]
    /\ {p \in DOMAIN fs0 : out[p] > 0} = {p \in ToProcess : Changes(fs0[p])}

\* A finished run over a root directory holding lib.rs and a file to rewrite,
\* and a rewritten file in each subdirectory.
C9_Witness ==
  /\ pc = "done"
  /\ DOMAIN fs0 = {RootLib, join(src_dir, "mod.rs"), join(DirUi, "mod.rs")}
  /\ out[join(src_dir, "mod.rs")] = 1
  /\ out[join(DirUi, "mod.rs")] = 1

====
